---- MODULE Spec2Model ----
(***************************************************************************)
(* Model of pattoo-web's two entry points:                                 *)
(*   setup/install.py   -- the install pipeline                            *)
(*                         (check_pip3, check_config, next_steps)          *)
(*   bin/pattoo_webd.py -- the daemon start-up (two AgentCLI.control       *)
(*                         calls, API agent first, gunicorn agent second)  *)
(*                                                                         *)
(* Text is a sequence of atoms: an atom is one character, or a literal     *)
(* fragment of a format string kept whole.  Everything printed goes to     *)
(* `out`, every subprocess.Popen attempt to `launched`, every              *)
(* AgentCLI.control event to `calls`.  A terminated process has            *)
(* exitStatus = <<code>>; a running one has exitStatus = <<>>.             *)
(***************************************************************************)
EXTENDS Integers, Sequences, FiniteSets

VARIABLES
    prog,         \* which script is running: "install" or "webd"
    pc,           \* control location in that script
    exitStatus,   \* <<>> while running, <<status>> once the process ended
    out,          \* everything printed, in order
    inExpectedDir,\* environment: the script lives in the expected directory
    fileExists,   \* environment: pip_requirements.txt is a file
    fileLines,    \* environment: the lines of pip_requirements.txt
    envSet,       \* environment: PATTOO_CONFIGDIR is in os.environ
    dirExists,    \* environment: os.path.isdir(PATTOO_CONFIGDIR)
    fileOpened,   \* check_pip3 has opened the requirements file
    envTested,    \* check_config has looked PATTOO_CONFIGDIR up in os.environ
    dirTested,    \* check_config has evaluated os.path.isdir
    lines,        \* check_pip3: the kept (stripped) requirement lines
    idx,          \* check_pip3: position of the for loop in lines
    package,      \* check_pip3: package name of the current line
    cli_string,   \* _run_script: argument
    die,          \* _run_script: argument
    retpc,        \* _run_script: where the call returns to
    messages,     \* _run_script: local list of diagnostic messages
    returncode,   \* _run_script: local, then the caller's copy
    stdoutdata,   \* _run_script: local
    stderrdata,   \* _run_script: local
    launchFailed, \* _run_script: Popen raised
    proc,         \* what the launched command really did: <<>> or <<[code,out,err]>>
    result,       \* what _run_script last returned: <<>> or <<[code,out,err]>>
    launched,     \* argv of every subprocess.Popen attempt, in order
    outcomes,     \* how each attempt ended: [started, code], in order
    config,       \* pattoo_webd main: the Config object
    agent_gunicorn, \* pattoo_webd main: the proxy descriptor
    agent_api,    \* pattoo_webd main: the API descriptor
    calls,        \* AgentCLI.control events, in order
    history       \* what an earlier run of the script left: <<>> or <<record>>

vars == << prog, pc, exitStatus, out, inExpectedDir, fileExists, fileLines,
           envSet, dirExists, fileOpened, envTested, dirTested, lines, idx,
           package,
           cli_string, die, retpc, messages, returncode, stdoutdata,
           stderrdata, launchFailed, proc, result, launched, outcomes, config,
           agent_gunicorn, agent_api, calls, history >>

installVars == << fileOpened, envTested, dirTested, lines, idx, package >>
runVars == << cli_string, die, retpc, messages, returncode, stdoutdata,
              stderrdata, launchFailed, proc, result, launched, outcomes >>
webdVars == << config, agent_gunicorn, agent_api, calls >>
\* What outlives one run of a script: no statement of either script assigns it
envVars == << prog, inExpectedDir, fileExists, fileLines, envSet, dirExists,
             history >>

----------------------------------------------------------------------------
(* Bounds and input sets *)

MaxLines == 2

\* Requirement-file lines (without the line terminator).
RawLines ==
    { <<>>, <<" ", "#", "a">>, <<"a">>, <<" ", "d", " ">>,
      <<"b", "=", "=", "1">>, <<"e", " ", ">", "1", "=">>,
      <<"a", "#">> }

RECURSIVE SeqsUpTo(_, _)
SeqsUpTo(S, n) ==
    IF n = 0 THEN { <<>> }
    ELSE LET shorter == SeqsUpTo(S, n - 1)
         IN shorter \cup { Append(s, x) : s \in shorter, x \in S }

Files == SeqsUpTo(RawLines, MaxLines)

\* Captured output of a command: no output, two terminated lines.
Data == { <<>>, <<"x", "\n", "y", "\n">> }

\* Exit codes a launched command can end with (negative: killed by a signal).
ExitCodes == { -9, 0, 1, 2 }

\* Ways AgentCLI.control, Config() or log.env() can fail: an unhandled
\* exception (status 1), sys.exit(2) from the library, death by signal.
FailureStatuses == { 1, 2, -15 }

----------------------------------------------------------------------------
(* Text helpers *)

Msg(kind, code, text) == [kind |-> kind, code |-> code, text |-> text]

IsSpace(c) == c \in {" ", "\n", "\t"}

RECURSIVE LStrip(_)
LStrip(s) ==
    IF s = <<>> THEN <<>>
    ELSE IF IsSpace(Head(s)) THEN LStrip(Tail(s)) ELSE s

RECURSIVE RStrip(_)
RStrip(s) ==
    IF s = <<>> THEN <<>>
    ELSE IF IsSpace(s[Len(s)]) THEN RStrip(SubSeq(s, 1, Len(s) - 1)) ELSE s

Strip(s) == RStrip(LStrip(s))

StartsWith(s, c) == s # <<>> /\ Head(s) = c

\* s.split(c, 1)[0]
RECURSIVE SplitFirst(_, _)
SplitFirst(s, c) ==
    IF s = <<>> THEN <<>>
    ELSE IF Head(s) = c THEN <<>>
    ELSE <<Head(s)>> \o SplitFirst(Tail(s), c)

\* s.split(c)
RECURSIVE Split(_, _)
Split(s, c) ==
    IF s = <<>> THEN << <<>> >>
    ELSE IF Head(s) = c THEN << <<>> >> \o Split(Tail(s), c)
    ELSE LET rest == Split(Tail(s), c)
         IN << <<Head(s)>> \o Head(rest) >> \o Tail(rest)

----------------------------------------------------------------------------
(* Process termination and the output stream *)

Emit(m) == out' = Append(out, m)

EmitAll(ms) == out' = out \o ms

\* sys.exit(status), or falling off the end of the script (status 0)
Exit(status) == pc' = "exited" /\ exitStatus' = <<status>>

\* Mutant: only a positive return code counts as a failure
TruthyPositive(x) == x > 0

\* bool(x) is True, for an integer x
Truthy(x) == x # 0

\* Mutant: the fatal path exits with the status of a failing sub-command
LogExit2(message) ==
    /\ Emit(Msg("PATTOO Error", 0, message))
    /\ Exit(2)

\* _log(message): print the error, then sys.exit(3)
Log(message) ==
    /\ Emit(Msg("PATTOO Error", 0, message))
    /\ Exit(3)

----------------------------------------------------------------------------
(* setup/install.py: module level *)

ROOT_DIR == "ROOT_DIR"

\* Mutant: the misplaced script is reported but goes on
InstallLocationCheck_no_exit ==
    /\ prog = "install" /\ pc = "boot"
    /\ IF inExpectedDir
       THEN UNCHANGED out
       ELSE Emit(Msg("not installed in expected directory", 0, <<>>))
    /\ pc' = "check_pip3"
    /\ UNCHANGED << envVars, exitStatus, installVars, runVars, webdVars >>

InstallLocationCheck ==
    /\ prog = "install" /\ pc = "boot"
    /\ IF inExpectedDir
       THEN /\ pc' = "check_pip3"
            /\ UNCHANGED << exitStatus, out >>
       ELSE /\ Emit(Msg("not installed in expected directory", 0, <<>>))
            /\ Exit(2)
    /\ UNCHANGED << envVars, installVars, runVars, webdVars >>

----------------------------------------------------------------------------
(* check_pip3 *)

\* The lines the reading loop keeps: stripped, not a comment, not blank.
RECURSIVE KeptLines(_)
KeptLines(raw) ==
    IF raw = <<>> THEN <<>>
    ELSE LET line == Strip(Head(raw))
         IN IF StartsWith(line, "#") \/ line = <<>>
            THEN KeptLines(Tail(raw))
            ELSE <<line>> \o KeptLines(Tail(raw))

\* Mutant: the name is cut at '=' only
PackageOfEqOnly(line) == SplitFirst(line, "=")

\* package = line.split('=', 1)[0]; package = package.split('>', 1)[0]
PackageOf(line) == SplitFirst(SplitFirst(line, "="), ">")

PipCommand(pkg) == <<"pip3", " ", "show", " ">> \o pkg

RequirementsPath == <<ROOT_DIR, "/", "pip_requirements.txt">>

MissingFileMessage ==
    <<"Cannot find PIP3 requirements file ">> \o RequirementsPath

MissingPackageMessage(pkg) ==
    <<"Python3 \"">> \o pkg
        \o <<"\" package not installed or pip3 command not found. Please fix.">>

\* Mutant: the missing file is reported but check_pip3 goes on to open it
check_pip3_isfile_no_exit ==
    /\ prog = "install" /\ pc = "check_pip3"
    /\ IF fileExists
       THEN UNCHANGED out
       ELSE Emit(Msg("PATTOO Error", 0, MissingFileMessage))
    /\ pc' = "read_requirements"
    /\ UNCHANGED << envVars, exitStatus, installVars, runVars, webdVars >>

\* lines 36-38: the requirements file must exist
check_pip3_isfile ==
    /\ prog = "install" /\ pc = "check_pip3"
    /\ IF fileExists
       THEN /\ pc' = "read_requirements"
            /\ UNCHANGED << exitStatus, out >>
       ELSE Log(MissingFileMessage)
    /\ UNCHANGED << envVars, installVars, runVars, webdVars >>

\* lines 40-51: read the file, keep the requirement lines
check_pip3_read ==
    /\ prog = "install" /\ pc = "read_requirements"
    /\ fileOpened' = TRUE
    /\ lines' = KeptLines(fileLines)
    /\ idx' = 1
    /\ pc' = "pip_loop"
    /\ UNCHANGED << envVars, exitStatus, out, envTested, dirTested, package,
                    runVars, webdVars >>

\* lines 54-60: next requirement line, up to the call of _run_script
check_pip3_next ==
    /\ prog = "install" /\ pc = "pip_loop"
    /\ IF idx <= Len(lines)
       THEN /\ package' = PackageOf(lines[idx])
            /\ Emit(Msg("??: Checking package", 0, PackageOf(lines[idx])))
            /\ cli_string' = PipCommand(PackageOf(lines[idx]))
            /\ die' = FALSE
            /\ retpc' = "pip_returned"
            /\ pc' = "run_script"
       ELSE /\ pc' = "check_config"
            /\ UNCHANGED << package, out, cli_string, die, retpc >>
    /\ UNCHANGED << envVars, exitStatus, fileOpened, envTested, dirTested,
                    lines, idx, messages, returncode, stdoutdata, stderrdata,
                    launchFailed, proc, result, launched, outcomes,
                    webdVars >>

\* Mutant: a package that passed is checked again
check_pip3_returned_again ==
    /\ prog = "install" /\ pc = "pip_returned"
    /\ IF Truthy(result[1].code)
       THEN /\ Log(MissingPackageMessage(package))
       ELSE /\ Emit(Msg("OK: package", 0, lines[idx]))
            /\ pc' = "pip_loop"
            /\ UNCHANGED exitStatus
    /\ UNCHANGED << envVars, fileOpened, envTested, dirTested, lines, idx,
                    package, runVars, webdVars >>

\* Mutant: the confirmation is printed before the return code is looked at
check_pip3_returned_ok_first ==
    /\ prog = "install" /\ pc = "pip_returned"
    /\ IF Truthy(result[1].code)
       THEN /\ out' = out \o << Msg("OK: package", 0, lines[idx]),
                                Msg("PATTOO Error", 0,
                                    MissingPackageMessage(package)) >>
            /\ Exit(3)
            /\ UNCHANGED idx
       ELSE /\ Emit(Msg("OK: package", 0, lines[idx]))
            /\ idx' = idx + 1
            /\ pc' = "pip_loop"
            /\ UNCHANGED exitStatus
    /\ UNCHANGED << envVars, fileOpened, envTested, dirTested, lines,
                    package, runVars, webdVars >>

\* Mutant: the loop steps over the line after a package that passed
check_pip3_returned_skips ==
    /\ prog = "install" /\ pc = "pip_returned"
    /\ IF Truthy(result[1].code)
       THEN /\ Log(MissingPackageMessage(package))
            /\ UNCHANGED idx
       ELSE /\ Emit(Msg("OK: package", 0, lines[idx]))
            /\ idx' = idx + 2
            /\ pc' = "pip_loop"
            /\ UNCHANGED exitStatus
    /\ UNCHANGED << envVars, fileOpened, envTested, dirTested, lines,
                    package, runVars, webdVars >>

\* Mutant: the missing package is reported but the loop goes on
check_pip3_returned_no_exit ==
    /\ prog = "install" /\ pc = "pip_returned"
    /\ IF Truthy(result[1].code)
       THEN Emit(Msg("PATTOO Error", 0, MissingPackageMessage(package)))
       ELSE Emit(Msg("OK: package", 0, lines[idx]))
    /\ idx' = idx + 1
    /\ pc' = "pip_loop"
    /\ UNCHANGED << envVars, exitStatus, fileOpened, envTested, dirTested,
                    lines, package, runVars, webdVars >>

\* lines 60-66: the result of the introspection command
check_pip3_returned ==
    /\ prog = "install" /\ pc = "pip_returned"
    /\ IF Truthy(result[1].code)
       THEN /\ Log(MissingPackageMessage(package))
            /\ UNCHANGED idx
       ELSE /\ Emit(Msg("OK: package", 0, lines[idx]))
            /\ idx' = idx + 1
            /\ pc' = "pip_loop"
            /\ UNCHANGED exitStatus
    /\ UNCHANGED << envVars, fileOpened, envTested, dirTested, lines,
                    package, runVars, webdVars >>

----------------------------------------------------------------------------
(* _run_script(cli_string, die) *)

\* How a Popen attempt ended: not started at all, or started and exited.
Outcome(started, code) == [started |-> started, code |-> code]

BugMessage == Msg("Bug: Exception Type", 0, <<>>)
TracebackMessage == Msg("traceback", 0, <<>>)

RECURSIVE Prefixed(_, _)
Prefixed(kind, ls) ==
    IF ls = <<>> THEN <<>>
    ELSE <<Msg(kind, 0, Head(ls))>> \o Prefixed(kind, Tail(ls))

\* Mutant: only the first line of each stream is reported
DiagnosticsFirstLines(rc, so, se) ==
    << Msg("Return code", rc, <<>>),
       Msg("STDOUT", 0, Head(Split(so, "\n"))),
       Msg("STDERR", 0, Head(Split(se, "\n"))) >>

\* lines 153-167: what is appended to messages when the return code is not 0
Diagnostics(rc, so, se) ==
    <<Msg("Return code", rc, <<>>)>>
        \o Prefixed("STDOUT", Split(so, "\n"))
        \o Prefixed("STDERR", Split(se, "\n"))

\* Mutant: the exception of a failed launch is not caught
run_script_launch_uncaught ==
    /\ pc = "run_script"
    /\ stdoutdata' = <<>>
    /\ stderrdata' = <<>>
    /\ returncode' = 1
    /\ proc' = <<>>
    /\ Emit(Msg("Running Command", 0, cli_string))
    /\ launched' = Append(launched, Split(cli_string, " "))
    /\ messages' = <<>>
    /\ \E started \in BOOLEAN :
         /\ launchFailed' = ~started
         /\ IF started
            THEN /\ pc' = "communicate"
                 /\ UNCHANGED << outcomes, exitStatus >>
            ELSE /\ Exit(1)
                 /\ outcomes' = Append(outcomes, Outcome(FALSE, 0))
    /\ UNCHANGED << envVars, installVars, cli_string, die, retpc, result,
                    webdVars >>

\* lines 123-140 and 143-148: print the command, split it, launch it
run_script_launch ==
    /\ pc = "run_script"
    /\ stdoutdata' = <<>>
    /\ stderrdata' = <<>>
    /\ returncode' = 1
    /\ proc' = <<>>
    /\ Emit(Msg("Running Command", 0, cli_string))
    /\ launched' = Append(launched, Split(cli_string, " "))
    /\ \E started \in BOOLEAN :
         /\ launchFailed' = ~started
         /\ IF started
            THEN /\ messages' = <<>>
                 /\ pc' = "communicate"
                 /\ UNCHANGED outcomes
            ELSE /\ messages' = <<BugMessage, TracebackMessage>>
                 /\ pc' = "report"
                 /\ outcomes' = Append(outcomes, Outcome(FALSE, 0))
    /\ UNCHANGED << envVars, exitStatus, installVars, cli_string, die, retpc,
                    result, webdVars >>

\* lines 141-142: wait for the command, take its output and return code
run_script_communicate ==
    /\ pc = "communicate"
    /\ \E code \in ExitCodes, so \in Data, se \in Data :
         /\ proc' = << [code |-> code, stdout |-> so, stderr |-> se] >>
         /\ stdoutdata' = so
         /\ stderrdata' = se
         /\ returncode' = code
         /\ outcomes' = Append(outcomes, Outcome(TRUE, code))
    /\ pc' = "report"
    /\ UNCHANGED << envVars, exitStatus, out, installVars, cli_string, die,
                    retpc, messages, launchFailed, result, launched,
                    webdVars >>

\* Mutant: the diagnostics are printed only when the process is to exit
run_script_report_quiet ==
    /\ pc = "report"
    /\ IF Truthy(returncode)
       THEN messages' = messages \o Diagnostics(returncode, stdoutdata,
                                                 stderrdata)
       ELSE UNCHANGED messages
    /\ IF Truthy(returncode) /\ die
       THEN /\ EmitAll(messages')
            /\ Exit(2)
            /\ UNCHANGED result
       ELSE /\ result' = << [code |-> returncode, stdout |-> stdoutdata,
                             stderr |-> stderrdata] >>
            /\ pc' = retpc
            /\ UNCHANGED << exitStatus, out >>
    /\ UNCHANGED << envVars, installVars, cli_string, die, retpc, returncode,
                    stdoutdata, stderrdata, launchFailed, proc, launched,
                    outcomes, webdVars >>

\* Mutant: a non-zero return code ends the process whatever die says
run_script_report_ignores_die ==
    /\ pc = "report"
    /\ IF Truthy(returncode)
       THEN /\ messages' = messages \o Diagnostics(returncode, stdoutdata,
                                                    stderrdata)
            /\ EmitAll(messages')
            /\ Exit(2)
            /\ UNCHANGED result
       ELSE /\ result' = << [code |-> returncode, stdout |-> stdoutdata,
                             stderr |-> stderrdata] >>
            /\ pc' = retpc
            /\ UNCHANGED << messages, out, exitStatus >>
    /\ UNCHANGED << envVars, installVars, cli_string, die, retpc, returncode,
                    stdoutdata, stderrdata, launchFailed, proc, launched,
                    outcomes, webdVars >>

\* lines 150-178: report a non-zero return code, then exit or return
run_script_report ==
    /\ pc = "report"
    /\ IF Truthy(returncode)
       THEN /\ messages' = messages \o Diagnostics(returncode, stdoutdata,
                                                    stderrdata)
            /\ EmitAll(messages')
       ELSE UNCHANGED << messages, out >>
    /\ IF Truthy(returncode) /\ die
       THEN /\ Exit(2)
            /\ UNCHANGED result
       ELSE /\ result' = << [code |-> returncode, stdout |-> stdoutdata,
                             stderr |-> stderrdata] >>
            /\ pc' = retpc
            /\ UNCHANGED exitStatus
    /\ UNCHANGED << envVars, installVars, cli_string, die, retpc, returncode,
                    stdoutdata, stderrdata, launchFailed, proc, launched,
                    outcomes, webdVars >>

----------------------------------------------------------------------------
(* check_config, next_steps, main *)

EnvUnsetMessage ==
    <<"Set your PATTOO_CONFIGDIR to point to your configuration directory">>

DirMissingMessage == <<"Set your PATTOO_CONFIGDIR cannot be found.">>

CheckConfigPath == <<ROOT_DIR, "/", "setup/_check_config.py">>

\* line 80
check_config_enter ==
    /\ prog = "install" /\ pc = "check_config"
    /\ Emit(Msg("??: Checking configuration", 0, <<>>))
    /\ pc' = "config_env"
    /\ UNCHANGED << envVars, exitStatus, installVars, runVars, webdVars >>

\* Mutant: the unset variable is reported but check_config goes on
check_config_env_no_exit ==
    /\ prog = "install" /\ pc = "config_env"
    /\ envTested' = TRUE
    /\ IF envSet
       THEN UNCHANGED out
       ELSE Emit(Msg("PATTOO Error", 0, EnvUnsetMessage))
    /\ pc' = "config_isdir"
    /\ UNCHANGED << envVars, exitStatus, fileOpened, dirTested, lines, idx,
                    package, runVars, webdVars >>

\* lines 83-91: PATTOO_CONFIGDIR must be set
check_config_env ==
    /\ prog = "install" /\ pc = "config_env"
    /\ envTested' = TRUE
    /\ IF envSet
       THEN /\ pc' = "config_isdir"
            /\ UNCHANGED << exitStatus, out >>
       ELSE Log(EnvUnsetMessage)
    /\ UNCHANGED << envVars, fileOpened, dirTested, lines, idx, package,
                    runVars, webdVars >>

\* Mutant: the missing directory is reported but the schema check still runs
check_config_isdir_no_exit ==
    /\ prog = "install" /\ pc = "config_isdir"
    /\ dirTested' = TRUE
    /\ IF dirExists
       THEN UNCHANGED out
       ELSE Emit(Msg("PATTOO Error", 0, DirMissingMessage))
    /\ cli_string' = CheckConfigPath
    /\ die' = TRUE
    /\ retpc' = "config_returned"
    /\ pc' = "run_script"
    /\ UNCHANGED << envVars, exitStatus, fileOpened, envTested, lines, idx,
                    package, messages, returncode, stdoutdata, stderrdata,
                    launchFailed, proc, result, launched, outcomes,
                    webdVars >>

\* Mutant: the schema check is run with die=False
check_config_isdir_no_die ==
    /\ prog = "install" /\ pc = "config_isdir"
    /\ dirTested' = TRUE
    /\ IF dirExists
       THEN /\ cli_string' = CheckConfigPath
            /\ die' = FALSE
            /\ retpc' = "config_returned"
            /\ pc' = "run_script"
            /\ UNCHANGED << exitStatus, out >>
       ELSE /\ Log(DirMissingMessage)
            /\ UNCHANGED << cli_string, die, retpc >>
    /\ UNCHANGED << envVars, fileOpened, envTested, lines, idx, package,
                    messages, returncode, stdoutdata, stderrdata,
                    launchFailed, proc, result, launched, outcomes,
                    webdVars >>

\* lines 94-107: PATTOO_CONFIGDIR must be a directory; then call the checker
check_config_isdir ==
    /\ prog = "install" /\ pc = "config_isdir"
    /\ dirTested' = TRUE
    /\ IF dirExists
       THEN /\ cli_string' = CheckConfigPath
            /\ die' = TRUE
            /\ retpc' = "config_returned"
            /\ pc' = "run_script"
            /\ UNCHANGED << exitStatus, out >>
       ELSE /\ Log(DirMissingMessage)
            /\ UNCHANGED << cli_string, die, retpc >>
    /\ UNCHANGED << envVars, fileOpened, envTested, lines, idx, package,
                    messages, returncode, stdoutdata, stderrdata,
                    launchFailed, proc, result, launched, outcomes,
                    webdVars >>

\* line 108, and the return to main
check_config_returned ==
    /\ prog = "install" /\ pc = "config_returned"
    /\ Emit(Msg("OK: Configuration check passed", 0, <<>>))
    /\ pc' = "next_steps"
    /\ UNCHANGED << envVars, exitStatus, installVars, runVars, webdVars >>

\* lines 192-206
next_steps ==
    /\ prog = "install" /\ pc = "next_steps"
    /\ Emit(Msg("Hooray successful installation!", 0, <<>>))
    /\ pc' = "install_end"
    /\ UNCHANGED << envVars, exitStatus, installVars, runVars, webdVars >>

\* Mutant: the run removes the requirements file when it ends
install_end_consumes ==
    /\ prog = "install" /\ pc = "install_end"
    /\ Exit(0)
    /\ fileExists' = FALSE
    /\ UNCHANGED << prog, inExpectedDir, fileLines, envSet, dirExists, history,
                    out, installVars, runVars, webdVars >>

\* main returns and the script ends
install_end ==
    /\ prog = "install" /\ pc = "install_end"
    /\ Exit(0)
    /\ UNCHANGED << envVars, out, installVars, runVars, webdVars >>

----------------------------------------------------------------------------
(* bin/pattoo_webd.py *)

PATTOO_WEBD_NAME == <<"pattoo_webd">>
PATTOO_WEBD_PROXY == <<"pattoo_webd", "-gunicorn">>

\* The configuration Config() can load.
ConfigObjects == { "config_A", "config_B" }

ControlEvent(agent, event, status) ==
    [agent |-> agent, event |-> event, status |-> status]

WebdLocationCheck ==
    /\ prog = "webd" /\ pc = "boot"
    /\ IF inExpectedDir
       THEN /\ pc' = "log_env"
            /\ UNCHANGED << exitStatus, out >>
       ELSE /\ Emit(Msg("not installed in expected directory", 0, <<>>))
            /\ Exit(2)
    /\ UNCHANGED << envVars, installVars, runVars, webdVars >>

\* line 53: log.env() returns
log_env_return ==
    /\ prog = "webd" /\ pc = "log_env"
    /\ pc' = "webd_main"
    /\ UNCHANGED << envVars, exitStatus, out, installVars, runVars, webdVars >>

\* line 53: log.env() does not return
log_env_fail ==
    /\ prog = "webd" /\ pc = "log_env"
    /\ \E status \in FailureStatuses : Exit(status)
    /\ UNCHANGED << envVars, out, installVars, runVars, webdVars >>

\* Mutant: the API agent is given a configuration object of its own
webd_main_init_two_configs ==
    /\ prog = "webd" /\ pc = "webd_main"
    /\ \E c \in ConfigObjects : \E c2 \in ConfigObjects \ { c } :
         /\ config' = <<c>>
         /\ agent_gunicorn' = << [name |-> PATTOO_WEBD_PROXY, config |-> c] >>
         /\ agent_api' = << [name |-> PATTOO_WEBD_NAME,
                             proxy |-> PATTOO_WEBD_PROXY,
                             app |-> "PATTOO_WEBD",
                             config |-> c2] >>
    /\ pc' = "control_api"
    /\ UNCHANGED << envVars, exitStatus, out, installVars, runVars, calls >>

\* lines 34-44: the configuration and the two agents
webd_main_init ==
    /\ prog = "webd" /\ pc = "webd_main"
    /\ \E c \in ConfigObjects :
         /\ config' = <<c>>
         /\ agent_gunicorn' = << [name |-> PATTOO_WEBD_PROXY, config |-> c] >>
         /\ agent_api' = << [name |-> PATTOO_WEBD_NAME,
                             proxy |-> PATTOO_WEBD_PROXY,
                             app |-> "PATTOO_WEBD",
                             config |-> c] >>
    /\ pc' = "control_api"
    /\ UNCHANGED << envVars, exitStatus, out, installVars, runVars, calls >>

\* lines 34-44: Config(), Agent() or AgentAPI() does not return
webd_main_init_fail ==
    /\ prog = "webd" /\ pc = "webd_main"
    /\ \E status \in FailureStatuses : Exit(status)
    /\ UNCHANGED << envVars, out, installVars, runVars, webdVars >>

\* Mutant: the call is started and main goes on without waiting for it
control_api_call_no_wait ==
    /\ prog = "webd" /\ pc = "control_api"
    /\ calls' = Append(calls, ControlEvent(agent_api[1].name, "invoked", 0))
    /\ pc' = "control_gunicorn"
    /\ UNCHANGED << envVars, exitStatus, out, installVars, runVars, config,
                    agent_gunicorn, agent_api >>

\* Mutant: the failure is caught and main carries on with the proxy
control_api_fail_caught ==
    /\ prog = "webd" /\ pc = "control_api_running"
    /\ \E status \in FailureStatuses :
         calls' = Append(calls,
                         ControlEvent(agent_api[1].name, "failed", status))
    /\ pc' = "control_gunicorn"
    /\ UNCHANGED << envVars, exitStatus, out, installVars, runVars, config,
                    agent_gunicorn, agent_api >>

\* lines 47-48: cli.control(agent_api) is called
control_api_call ==
    /\ prog = "webd" /\ pc = "control_api"
    /\ calls' = Append(calls, ControlEvent(agent_api[1].name, "invoked", 0))
    /\ pc' = "control_api_running"
    /\ UNCHANGED << envVars, exitStatus, out, installVars, runVars, config,
                    agent_gunicorn, agent_api >>

\* line 48: cli.control(agent_api) returns; its value is not used
control_api_return ==
    /\ prog = "webd" /\ pc = "control_api_running"
    /\ calls' = Append(calls, ControlEvent(agent_api[1].name, "returned", 0))
    /\ pc' = "control_gunicorn"
    /\ UNCHANGED << envVars, exitStatus, out, installVars, runVars, config,
                    agent_gunicorn, agent_api >>

\* line 48: cli.control(agent_api) fails; nothing in main catches it
control_api_fail ==
    /\ prog = "webd" /\ pc = "control_api_running"
    /\ \E status \in FailureStatuses :
         /\ calls' = Append(calls,
                            ControlEvent(agent_api[1].name, "failed", status))
         /\ Exit(status)
    /\ UNCHANGED << envVars, out, installVars, runVars, config,
                    agent_gunicorn, agent_api >>

\* line 49: cli.control(agent_gunicorn) is called
control_gunicorn_call ==
    /\ prog = "webd" /\ pc = "control_gunicorn"
    /\ calls' = Append(calls,
                       ControlEvent(agent_gunicorn[1].name, "invoked", 0))
    /\ pc' = "control_gunicorn_running"
    /\ UNCHANGED << envVars, exitStatus, out, installVars, runVars, config,
                    agent_gunicorn, agent_api >>

\* line 49: cli.control(agent_gunicorn) returns; main returns, script ends
control_gunicorn_return ==
    /\ prog = "webd" /\ pc = "control_gunicorn_running"
    /\ calls' = Append(calls,
                       ControlEvent(agent_gunicorn[1].name, "returned", 0))
    /\ Exit(0)
    /\ UNCHANGED << envVars, out, installVars, runVars, config,
                    agent_gunicorn, agent_api >>

\* line 49: cli.control(agent_gunicorn) fails
control_gunicorn_fail ==
    /\ prog = "webd" /\ pc = "control_gunicorn_running"
    /\ \E status \in FailureStatuses :
         /\ calls' = Append(calls, ControlEvent(agent_gunicorn[1].name,
                                                "failed", status))
         /\ Exit(status)
    /\ UNCHANGED << envVars, out, installVars, runVars, config,
                    agent_gunicorn, agent_api >>

----------------------------------------------------------------------------
(* The specification *)

Init ==
    /\ prog \in { "install", "webd" }
    /\ pc = "boot"
    /\ exitStatus = <<>>
    /\ out = <<>>
    /\ inExpectedDir \in BOOLEAN
    /\ fileExists \in BOOLEAN
    /\ fileLines \in Files
    /\ envSet \in BOOLEAN
    /\ dirExists \in BOOLEAN
    /\ ~fileExists => fileLines = <<>>
    /\ ~envSet => ~dirExists
    /\ prog = "webd" => ~fileExists /\ ~envSet
    /\ fileOpened = FALSE
    /\ envTested = FALSE
    /\ dirTested = FALSE
    /\ lines = <<>>
    /\ idx = 0
    /\ package = <<>>
    /\ cli_string = <<>>
    /\ die = FALSE
    /\ retpc = ""
    /\ messages = <<>>
    /\ returncode = 0
    /\ stdoutdata = <<>>
    /\ stderrdata = <<>>
    /\ launchFailed = FALSE
    /\ proc = <<>>
    /\ result = <<>>
    /\ launched = <<>>
    /\ outcomes = <<>>
    /\ config = <<>>
    /\ agent_gunicorn = <<>>
    /\ agent_api = <<>>
    /\ calls = <<>>
    /\ history = <<>>

Next ==
    \/ InstallLocationCheck
    \/ check_pip3_isfile
    \/ check_pip3_read
    \/ check_pip3_next
    \/ check_pip3_returned
    \/ run_script_launch
    \/ run_script_communicate
    \/ run_script_report
    \/ check_config_enter
    \/ check_config_env
    \/ check_config_isdir
    \/ check_config_returned
    \/ next_steps
    \/ install_end
    \/ WebdLocationCheck
    \/ log_env_return
    \/ log_env_fail
    \/ webd_main_init
    \/ webd_main_init_fail
    \/ control_api_call
    \/ control_api_return
    \/ control_api_fail
    \/ control_gunicorn_call
    \/ control_gunicorn_return
    \/ control_gunicorn_fail

Spec == Init /\ [][Next]_vars

\* The environment the script runs against
Environment ==
    [ inExpectedDir |-> inExpectedDir, fileExists |-> fileExists,
      fileLines |-> fileLines, envSet |-> envSet, dirExists |-> dirExists ]

\* The operator runs the install script again after a run that ended with
\* status 0: a new process starts at the top of the file, with the same
\* environment; what the first run printed and launched is kept aside.
Rerun ==
    /\ prog = "install" /\ pc = "exited" /\ exitStatus = <<0>>
    /\ history = <<>>
    /\ history' = << [ out |-> out, launched |-> launched,
                       env |-> Environment ] >>
    /\ pc' = "boot"
    /\ exitStatus' = <<>>
    /\ out' = <<>>
    /\ fileOpened' = FALSE /\ envTested' = FALSE /\ dirTested' = FALSE
    /\ lines' = <<>> /\ idx' = 0 /\ package' = <<>>
    /\ cli_string' = <<>> /\ die' = FALSE /\ retpc' = ""
    /\ messages' = <<>> /\ returncode' = 0
    /\ stdoutdata' = <<>> /\ stderrdata' = <<>>
    /\ launchFailed' = FALSE /\ proc' = <<>> /\ result' = <<>>
    /\ launched' = <<>> /\ outcomes' = <<>>
    /\ UNCHANGED << prog, inExpectedDir, fileExists, fileLines, envSet,
                    dirExists, webdVars >>

NextTwice ==
    \/ Next
    \/ Rerun

\* The scripts, with the install script possibly run a second time
SpecTwice == Init /\ [][NextTwice]_vars

\* The steps the install script takes by itself: the interpreter runs them
\* one after the other without waiting for anything.
InstallSteps ==
    \/ InstallLocationCheck
    \/ check_pip3_isfile
    \/ check_pip3_read
    \/ check_pip3_next
    \/ check_pip3_returned
    \/ run_script_launch
    \/ run_script_report
    \/ check_config_enter
    \/ check_config_env
    \/ check_config_isdir
    \/ check_config_returned
    \/ next_steps
    \/ install_end

\* The same program, when the interpreter keeps running and every launched
\* command ends (communicate() returns).
SpecLive ==
    /\ Init
    /\ [][Next]_vars
    /\ WF_vars(InstallSteps)
    /\ WF_vars(run_script_communicate)

----------------------------------------------------------------------------
(* Properties of bin/pattoo_webd.py *)

IsEvent(e, agent, event) == e.agent = agent /\ e.event = event

Happened(agent, event) ==
    \E i \in DOMAIN calls : IsEvent(calls[i], agent, event)

Invocations(agent) ==
    Cardinality({ i \in DOMAIN calls : IsEvent(calls[i], agent, "invoked") })

\* C1: once the API agent's control call has failed, the proxy agent's
\* control call has not been invoked and never is (the process has ended),
\* and the exit status of the process is the status of that failure.
C1_NoProxyAfterApiFailure ==
    \A i \in DOMAIN calls :
        IsEvent(calls[i], PATTOO_WEBD_NAME, "failed")
            => /\ Invocations(PATTOO_WEBD_PROXY) = 0
               /\ pc = "exited"
               /\ exitStatus = << calls[i].status >>
               /\ i = Len(calls)

C1_Witness ==
    /\ Happened(PATTOO_WEBD_NAME, "invoked")
    /\ Happened(PATTOO_WEBD_NAME, "failed")
    /\ pc = "exited"

\* C2: the proxy agent's control call begins only after the API agent's
\* control call was invoked and has returned; at no time are two control
\* calls in progress.
C2_ApiCompletesBeforeProxy ==
    /\ \A i \in DOMAIN calls :
         IsEvent(calls[i], PATTOO_WEBD_PROXY, "invoked")
            => \E j \in 1..(i - 1), k \in 1..(i - 1) :
                 /\ j < k
                 /\ IsEvent(calls[j], PATTOO_WEBD_NAME, "invoked")
                 /\ IsEvent(calls[k], PATTOO_WEBD_NAME, "returned")
    /\ Cardinality({ i \in DOMAIN calls : calls[i].event = "invoked" })
         - Cardinality({ i \in DOMAIN calls : calls[i].event # "invoked" })
         \in { 0, 1 }
    /\ pc = "control_gunicorn_running"
         => Happened(PATTOO_WEBD_NAME, "returned")

C2_Witness ==
    /\ pc = "control_gunicorn_running"
    /\ Happened(PATTOO_WEBD_PROXY, "invoked")

----------------------------------------------------------------------------
(* Properties of setup/install.py *)

Last(seq) == seq[Len(seq)]

CountKind(kind) == Cardinality({ i \in DOMAIN out : out[i].kind = kind })

Printed(kind) == CountKind(kind) > 0

ErrorMsg(text) == Msg("PATTOO Error", 0, text)

Failed(o) == ~o.started \/ o.code # 0

IsPipLaunch(argv) ==
    Len(argv) >= 2 /\ argv[1] = <<"pip3">> /\ argv[2] = <<"show">>

IsConfigLaunch(argv) == argv = << CheckConfigPath >>

\* the k-th launched command is a package check that did not return 0
PipFailedAt(k) ==
    /\ k \in DOMAIN outcomes
    /\ IsPipLaunch(launched[k])
    /\ Failed(outcomes[k])

ConfigInvoked ==
    \/ envTested
    \/ dirTested
    \/ Printed("??: Checking configuration")
    \/ \E k \in DOMAIN launched : IsConfigLaunch(launched[k])
    \/ pc \in { "config_env", "config_isdir", "config_returned" }

\* C4: a stage starts only after the stage before it succeeded: after a
\* failed package check check_config is never invoked (PATTOO_CONFIGDIR is
\* not looked up, the directory is not tested, the schema check is not
\* launched); check_config runs only after every kept line was checked and
\* returned 0; next_steps runs only after the schema check returned 0.
C4_StagesInOrder ==
    /\ (\E k \in DOMAIN outcomes : PipFailedAt(k))
          => ~ConfigInvoked /\ ~Printed("Hooray successful installation!")
    /\ ConfigInvoked
          => /\ fileExists
             /\ lines = KeptLines(fileLines)
             /\ Len(outcomes) >= Len(lines)
             /\ \A k \in 1..Len(lines) :
                    IsPipLaunch(launched[k]) /\ ~Failed(outcomes[k])
    /\ Printed("Hooray successful installation!")
          => /\ ConfigInvoked
             /\ envSet /\ dirExists
             /\ Len(outcomes) = Len(lines) + 1
             /\ IsConfigLaunch(Last(launched))
             /\ ~Failed(Last(outcomes))

\* the first package passes and the second fails
C4_Witness ==
    /\ pc = "exited"
    /\ Len(outcomes) = 2
    /\ ~Failed(outcomes[1])
    /\ PipFailedAt(2)

\* C5: check_config tests the environment in a fixed order: an unset
\* PATTOO_CONFIGDIR ends the run with the 'unset' error without the
\* directory test being evaluated; a set PATTOO_CONFIGDIR that is no
\* directory ends it with the different 'cannot be found' error; the two
\* errors are never printed in one run.
C5_EnvThenDirectory ==
    /\ EnvUnsetMessage # DirMissingMessage
    /\ (envTested /\ ~envSet)
          => /\ pc = "exited" /\ exitStatus = <<3>>
             /\ Last(out) = ErrorMsg(EnvUnsetMessage)
             /\ ~dirTested
    /\ (dirTested /\ ~dirExists)
          => /\ envTested /\ envSet
             /\ pc = "exited" /\ exitStatus = <<3>>
             /\ Last(out) = ErrorMsg(DirMissingMessage)
    /\ ~(/\ \E i \in DOMAIN out : out[i] = ErrorMsg(EnvUnsetMessage)
         /\ \E j \in DOMAIN out : out[j] = ErrorMsg(DirMissingMessage))
    /\ dirTested => envTested

C5_Witness ==
    /\ pc = "exited"
    /\ dirTested /\ ~dirExists
    /\ Last(out) = ErrorMsg(DirMissingMessage)

C5_WitnessUnset ==
    /\ pc = "exited"
    /\ envTested /\ ~envSet
    /\ Last(out) = ErrorMsg(EnvUnsetMessage)

----------------------------------------------------------------------------
(* Properties of _run_script *)

LastRunning ==
    LET S == { i \in DOMAIN out : out[i].kind = "Running Command" }
    IN IF S = {} THEN 0 ELSE CHOOSE i \in S : \A j \in S : j <= i

\* the texts of the messages of one kind, in order
TextsOf(ms, kind) ==
    LET OfKind(m) == m.kind = kind
        sel == SelectSeq(ms, OfKind)
    IN [ i \in DOMAIN sel |-> sel[i].text ]

\* sep.join(ls)
RECURSIVE Join(_, _)
Join(ls, sep) ==
    IF ls = <<>> THEN <<>>
    ELSE IF Len(ls) = 1 THEN Head(ls)
    ELSE Head(ls) \o <<sep>> \o Join(Tail(ls), sep)

CountIn(seq, c) == Cardinality({ i \in DOMAIN seq : seq[i] = c })

SentinelResult == [code |-> 1, stdout |-> <<>>, stderr |-> <<>>]

\* C8 as stated: after a failed launch the caller holds a result with a
\* non-zero code whose stderr carries the execution-error message.
C8_ErrorMessageInResult ==
    (launchFailed /\ pc # "report")
        => /\ exitStatus # <<2>>
           /\ result # <<>>
           /\ Truthy(result[1].code)
           /\ result[1].stderr # <<>>

\* C8, amended: a failed launch is caught; the execution-error message and
\* the traceback are printed, followed by return code 1 and one empty
\* STDOUT and STDERR line; with die=False the caller then receives
\* (1, b'', b''), whose stderr is empty, and with die=True the process ends
\* with status 2.
C8_LaunchFailureReported ==
    (launchFailed /\ pc # "report")
        => LET r == LastRunning
           IN /\ r > 0
              /\ Len(out) >= r + 5
              /\ SubSeq(out, r, r + 5) =
                    << Msg("Running Command", 0, cli_string),
                       Msg("Bug: Exception Type", 0, <<>>),
                       Msg("traceback", 0, <<>>),
                       Msg("Return code", 1, <<>>),
                       Msg("STDOUT", 0, <<>>),
                       Msg("STDERR", 0, <<>>) >>
              /\ IF die
                 THEN /\ pc = "exited" /\ exitStatus = <<2>>
                      /\ Len(out) = r + 5
                 ELSE /\ result = << SentinelResult >>
                      /\ exitStatus \in { <<>>, <<3>> }
                      /\ exitStatus = <<>> => pc = retpc

C8_Witness ==
    /\ launchFailed
    /\ pc = "pip_returned"
    /\ result = << SentinelResult >>

----------------------------------------------------------------------------
(* Properties of the whole install pipeline *)

ConfigCommandFailed ==
    \E k \in DOMAIN outcomes :
        IsConfigLaunch(launched[k]) /\ Failed(outcomes[k])

ConfigCommandPassed ==
    \E k \in DOMAIN outcomes :
        IsConfigLaunch(launched[k]) /\ ~Failed(outcomes[k])

\* the exit status the first failing stage asks for
ExpectedStatus ==
    IF ~fileExists THEN 3
    ELSE IF \E k \in DOMAIN outcomes : PipFailedAt(k) THEN 3
    ELSE IF ~envSet THEN 3
    ELSE IF ~dirExists THEN 3
    ELSE IF ConfigCommandFailed THEN 2
    ELSE 0

AllPassed ==
    /\ \A k \in DOMAIN outcomes :
           IsPipLaunch(launched[k]) => ~Failed(outcomes[k])
    /\ envSet
    /\ dirExists
    /\ ConfigCommandPassed

PipLaunches ==
    Cardinality({ k \in DOMAIN launched : IsPipLaunch(launched[k]) })

\* C10: the next-steps message is printed only when every requirement was
\* checked and returned 0, PATTOO_CONFIGDIR is set and names a directory and
\* the schema check returned 0; a run that ends has printed it exactly in
\* that case, and ends with a non-zero status exactly when it has not.
C10_NextStepsIffAllPassed ==
    prog = "install"
        => /\ Printed("Hooray successful installation!")
                => /\ AllPassed
                   /\ PipLaunches = Len(KeptLines(fileLines))
           /\ pc = "exited"
                => /\ Printed("Hooray successful installation!") <=> AllPassed
                   /\ Printed("Hooray successful installation!")
                         <=> exitStatus = <<0>>
                   /\ CountKind("Hooray successful installation!") <= 1

C10_Witness ==
    /\ prog = "install"
    /\ pc = "exited"
    /\ Printed("Hooray successful installation!")
    /\ Len(lines) = 2

----------------------------------------------------------------------------
(* Requirement parsing, stated without the reading loop *)

\* the line between its first and its last non-blank character
Trimmed(raw) ==
    LET N == { i \in DOMAIN raw : raw[i] \notin { " ", "\t", "\n" } }
    IN IF N = {} THEN <<>>
       ELSE SubSeq(raw, CHOOSE i \in N : \A j \in N : i <= j,
                        CHOOSE i \in N : \A j \in N : j <= i)

\* positions of the file's lines that are requirements
RequirementPositions ==
    { i \in DOMAIN fileLines :
        /\ Trimmed(fileLines[i]) # <<>>
        /\ Trimmed(fileLines[i])[1] # "#" }

\* the requirements of the file, in file order
Requirements ==
    LET positions == RequirementPositions
        Before(i) == Cardinality({ j \in positions : j < i })
    IN [ n \in 1..Cardinality(positions) |->
           Trimmed(fileLines[CHOOSE i \in positions : Before(i) = n - 1]) ]

\* the prefix of a line before its first '=' or '>'
NameOf(line) ==
    LET C == { i \in DOMAIN line : line[i] \in { "=", ">" } }
    IN IF C = {} THEN line
       ELSE SubSeq(line, 1, (CHOOSE i \in C : \A j \in C : i <= j) - 1)

\* the command strings _run_script was given, in order
CommandsRun == TextsOf(out, "Running Command")

\* the command string that asks pip3 about a package name
ShowCommand(name) == <<"pip3", " ", "show", " ">> \o name

\* C11: when every package check returns 0, check_pip3 returns without
\* _log being called, having checked every requirement line exactly once
\* and in file order; commands are launched one at a time, and the k-th
\* one is always for the k-th requirement line.
C11_AllPresentCompletes ==
    prog = "install"
        => /\ Len(launched) - Len(outcomes) \in { 0, 1 }
           /\ LET commands == CommandsRun
              IN \A k \in DOMAIN launched :
                     IsPipLaunch(launched[k])
                         => /\ k <= Len(lines)
                            /\ commands[k] = ShowCommand(NameOf(lines[k]))
           /\ pc = "check_config"
                => /\ exitStatus = <<>>
                   /\ ~Printed("PATTOO Error")
                   /\ Len(launched) = Len(lines)
                   /\ Len(outcomes) = Len(lines)
                   /\ \A k \in DOMAIN lines :
                          IsPipLaunch(launched[k]) /\ ~Failed(outcomes[k])
           /\ (Printed("PATTOO Error") /\ fileOpened /\ ~ConfigInvoked)
                => \E k \in DOMAIN outcomes : PipFailedAt(k)

C11_Witness ==
    /\ prog = "install"
    /\ pc = "check_config"
    /\ Len(lines) = 2
    /\ lines[1] # lines[2]

\* C12: when the requirements file is absent, check_pip3 ends the process
\* with status 3 on the 'Cannot find' error, the file is never opened and
\* no command is ever launched.
C12_MissingFileIsFatal ==
    (prog = "install" /\ ~fileExists)
        => /\ ~fileOpened
           /\ launched = <<>>
           /\ pc \in { "boot", "check_pip3", "exited" }
           /\ (pc = "exited" /\ inExpectedDir)
                => /\ exitStatus = <<3>>
                   /\ out = << ErrorMsg(MissingFileMessage) >>

C12_Witness ==
    /\ prog = "install"
    /\ ~fileExists
    /\ pc = "exited"
    /\ exitStatus = <<3>>

\* C13: when PATTOO_CONFIGDIR is unset or names no directory, the schema
\* check is never launched, and check_config's test of it ends the process
\* with status 3.
C13_BadConfigDirIsFatal ==
    (prog = "install" /\ (~envSet \/ ~dirExists))
        => /\ \A k \in DOMAIN launched : ~IsConfigLaunch(launched[k])
           /\ ~die
           /\ pc \notin { "config_returned", "next_steps", "install_end" }
           /\ ~Printed("OK: Configuration check passed")
           /\ ((envTested /\ ~envSet) \/ dirTested)
                => pc = "exited" /\ exitStatus = <<3>>
           /\ exitStatus # <<0>>

C13_Witness ==
    /\ prog = "install"
    /\ envSet /\ ~dirExists
    /\ dirTested
    /\ pc = "exited"
    /\ Len(launched) = 2

\* C14: the requirement lines check_pip3 keeps are exactly the trimmed
\* lines of the file that are not blank and do not begin with '#', in file
\* order; the package name given to 'pip3 show' for the k-th of them is its
\* prefix before the first '=' or '>' (the whole line when it has neither);
\* and when check_pip3 returns, every one of them has been checked.
C14_RequirementsParsing ==
    (prog = "install" /\ fileOpened)
        => LET reqs == Requirements
               commands == CommandsRun
               checking == TextsOf(out, "??: Checking package")
           IN /\ lines = reqs
              /\ \A k \in DOMAIN launched :
                     IsPipLaunch(launched[k])
                         => /\ k <= Len(reqs)
                            /\ commands[k] = ShowCommand(NameOf(reqs[k]))
                            /\ checking[k] = NameOf(reqs[k])
              /\ (pc \in { "pip_returned", "report", "communicate" }
                      /\ retpc = "pip_returned" /\ ~die)
                   => /\ package = NameOf(reqs[idx])
                      /\ idx = Len(launched)
              /\ pc = "check_config"
                   => PipLaunches = Cardinality(RequirementPositions)

C14_Witness ==
    /\ prog = "install"
    /\ pc = "check_config"
    /\ Len(fileLines) = 2
    /\ Len(lines) = 1
    /\ lines[1] # fileLines[2]
    /\ CommandsRun[1] # ShowCommand(lines[1])
    /\ Len(launched[1]) = 4

\* C15: a script that is not in its expected directory ends with status 2
\* after printing one message; it opens no file, looks at no environment
\* variable, launches no command, builds no configuration or descriptor
\* and makes no control call.
C15_MisplacedScriptExits2 ==
    (~inExpectedDir /\ pc # "boot")
        => /\ pc = "exited"
           /\ exitStatus = <<2>>
           /\ out = << Msg("not installed in expected directory", 0, <<>>) >>
           /\ ~fileOpened /\ ~envTested /\ ~dirTested
           /\ launched = <<>>
           /\ config = <<>> /\ agent_api = <<>> /\ agent_gunicorn = <<>>
           /\ calls = <<>>

C15_Witness ==
    /\ prog = "install"
    /\ ~inExpectedDir
    /\ pc = "exited"

C15_WitnessWebd ==
    /\ prog = "webd"
    /\ ~inExpectedDir
    /\ pc = "exited"

----------------------------------------------------------------------------
(* The descriptors of bin/pattoo_webd.py *)

\* C17: main builds one configuration and two descriptors bound to it: the
\* API descriptor named 'pattoo_webd' and the proxy descriptor named
\* 'pattoo_webd-gunicorn' (the service name followed by '-gunicorn'); the
\* API descriptor's proxy name is the proxy descriptor's name; control is
\* only ever called on these two.
C17_TwoDescriptorsOneConfig ==
    /\ (config = <<>>) = (agent_api = <<>>)
    /\ (config = <<>>) = (agent_gunicorn = <<>>)
    /\ config # <<>>
         => /\ Len(config) = 1 /\ Len(agent_api) = 1
            /\ Len(agent_gunicorn) = 1
            /\ agent_api[1].config = config[1]
            /\ agent_gunicorn[1].config = config[1]
            /\ agent_api[1].name = <<"pattoo_webd">>
            /\ agent_gunicorn[1].name = <<"pattoo_webd", "-gunicorn">>
            /\ agent_gunicorn[1].name = agent_api[1].name \o <<"-gunicorn">>
            /\ agent_api[1].proxy = agent_gunicorn[1].name
    /\ \A i \in DOMAIN calls :
         /\ config # <<>>
         /\ calls[i].agent \in { agent_api[1].name, agent_gunicorn[1].name }

C17_Witness ==
    /\ prog = "webd"
    /\ pc = "control_gunicorn_running"
    /\ agent_api # <<>>
    /\ agent_gunicorn # <<>>

----------------------------------------------------------------------------
(* Confirmations and diagnostics *)

\* C18: the 'OK: package' confirmations printed so far are those of the
\* first requirement lines, in file order, one per line; each was printed
\* after the command of its line had returned 0 and before the next
\* command was given; the package whose check failed has none.
C18_ConfirmationAfterSuccess ==
    prog = "install"
        => LET oks == TextsOf(out, "OK: package")
               okAt == { i \in DOMAIN out : out[i].kind = "OK: package" }
               runAt == { i \in DOMAIN out : out[i].kind = "Running Command" }
               reqs == Requirements
           IN /\ Len(oks) <= Len(outcomes)
              /\ \A k \in DOMAIN oks :
                     /\ oks[k] = reqs[k]
                     /\ IsPipLaunch(launched[k])
                     /\ outcomes[k] = Outcome(TRUE, 0)
              /\ \A i \in okAt :
                     /\ Cardinality({ j \in runAt : j < i })
                          = Cardinality({ j \in okAt : j <= i })
                     /\ i > 1 /\ out[i - 1].kind = "Running Command"
              /\ \A k \in DOMAIN outcomes : PipFailedAt(k) => Len(oks) = k - 1

C18_Witness ==
    /\ prog = "install"
    /\ pc = "exited"
    /\ CountKind("OK: package") = 1
    /\ PipFailedAt(2)
    /\ Len(fileLines) = 2

C19_WitnessReturned ==
    /\ ~launchFailed
    /\ ~die
    /\ pc = "pip_returned"
    /\ Truthy(result[1].code)
    /\ result[1].stderr = <<"x", "\n", "y", "\n">>

----------------------------------------------------------------------------
(* Termination of the install pipeline *)

ConfigLaunches ==
    Cardinality({ k \in DOMAIN launched : IsConfigLaunch(launched[k]) })

----------------------------------------------------------------------------
(* Running the install pipeline twice *)

SecondRunPassed ==
    /\ history # <<>>
    /\ pc = "exited"
    /\ \A k \in DOMAIN outcomes : ~Failed(outcomes[k])

====
